---- MODULE Spec2Model ----
(***************************************************************************)
(* A model of autocut (src/autocut/main.py): the interval transforms, the  *)
(* subtitle timeline built by Transcribe._save_srt, the markdown checklist *)
(* written by Transcribe._save_md and read by Cutter._marked_index, and    *)
(* the assembly pipeline Cutter.run.                                       *)
(*                                                                         *)
(* Python dicts are mutable objects: an interval list is modelled as a     *)
(* sequence of object ids into a heap of {start, end} records, so that     *)
(* in-place writes and shared records are visible.                         *)
(***************************************************************************)
EXTENDS Integers, Sequences, FiniteSets, TLC

VARIABLES
    \* ---- interval transforms (lines 13-43)
    heap,        \* object id -> [start, end]: every interval dict alive
    segments,    \* the caller's list: a sequence of object ids
    results,     \* the returned list: a sequence of object ids
    orig,        \* the caller's intervals as values, before the call
    call,        \* the call made: [name, head, tail, total, threshold]
    ipc,         \* "ready" | "returned"
    \* ---- Transcribe: detection, transcription, _save_srt (lines 82-151)
    speeches,            \* the detector's output, in samples
    speech_timestamps,   \* _detect_voice_activity's result, in samples
    transcribe_results,  \* _transcibe's result: one r per voice segment
    subs,                \* the subtitles _save_srt has added so far
    prev_end,            \* _save_srt's cursor
    ri,                  \* how many r of transcribe_results _save_srt has consumed
    srt_out,             \* the subtitle file as written
    spc,                 \* "detect" | "transcribe" | "save" | "done" | "idle"
    \* ---- the checklist: Transcribe._save_md, Cutter._marked_index (153-169, 228-240)
    srt_file,    \* the subtitle file as srt.parse reads it: [index, start, end, content]
    md_file,     \* the markdown file: a sequence of lines, each a sequence of tokens
    marked,      \* the positions in srt_file whose lines the reviewer has checked
    sentinel,    \* what the reviewer left in the DONE EDITTING box: " ", "x", "X", "missing"
    done,        \* _marked_index's first result
    index,       \* _marked_index's second result
    mpc,         \* "export" | "review" | "imported" | "idle"
    \* ---- Cutter.run (175-226)
    inputs,          \* args.inputs: the extensions of the files given
    args_md,         \* args.md
    args_force,      \* args.force
    output_exists,   \* whether <video>_autocut.mp4 exists
    output_existed,  \* whether it existed when the run began
    cut_subs,        \* subs in Cutter.run
    cut_segments,    \* segments in Cutter.run
    ti,              \* how many clips have been cut
    events,          \* the calls made to the media engine, in order
    reads,           \* the files read so far
    outcome,         \* how the run ended, "" while it runs
    cpc              \* Cutter.run's position, "idle" outside it

ivars == <<heap, segments, results, orig, call, ipc>>
svars == <<speeches, speech_timestamps, transcribe_results, subs, prev_end, ri,
           srt_out, spc>>
mvars == <<srt_file, md_file, marked, sentinel, done, index, mpc>>
cvars == <<inputs, args_md, args_force, output_exists, output_existed, cut_subs,
           cut_segments, ti, events, reads, outcome, cpc>>
vars == <<ivars, svars, mvars, cvars>>
notI == <<svars, mvars, cvars>>
notS == <<ivars, mvars, cvars>>
notM == <<ivars, svars, cvars>>
notC == <<ivars, svars>>

\* ------------------------------------------------------------------ bounds
MaxSegs == 3
MaxTime == 5
MaxPad == 2
MaxVoice == 2      \* voice segments the detector reports
MaxGrain == 3      \* the audio is MaxGrain half-seconds long
MaxLocal == 2      \* transcript timestamps are 0..MaxLocal seconds into a slice
MaxEntries == 3    \* transcript segments in one file
MaxSubs == 5       \* entries of a subtitle file given to _save_md and Cutter.run

\* ------------------------------------------ the parts a specification leaves idle
NoCall == [name |-> "none", head |-> 0, tail |-> 0, total |-> 0, threshold |-> 0]

IdleIntervals ==
    /\ heap = <<>> /\ segments = <<>> /\ results = <<>> /\ orig = <<>>
    /\ call = NoCall /\ ipc = "idle"

IdleSrt ==
    /\ speeches = <<>> /\ speech_timestamps = <<>> /\ transcribe_results = <<>>
    /\ subs = <<>> /\ prev_end = 0 /\ ri = 0 /\ srt_out = <<>> /\ spc = "idle"

IdleMd == mpc = "idle"

IdleFiles ==
    /\ srt_file = <<>> /\ md_file = <<>> /\ marked = {} /\ sentinel = " "
    /\ done = FALSE /\ index = <<>>

IdleCut ==
    /\ inputs = {} /\ args_md = FALSE /\ args_force = FALSE
    /\ output_exists = FALSE /\ output_existed = FALSE
    /\ cut_subs = <<>> /\ cut_segments = <<>> /\ ti = 0 /\ events = <<>>
    /\ reads = {} /\ outcome = "" /\ cpc = "idle"

\* ----------------------------------------------------------------- helpers
Max(a, b) == IF a >= b THEN a ELSE b
Min(a, b) == IF a <= b THEN a ELSE b

RECURSIVE SumLen(_)
SumLen(s) == IF s = <<>> THEN 0 ELSE (Head(s).end - Head(s).start) + SumLen(Tail(s))

Range(s) == {s[i] : i \in 1..Len(s)}

\* The interval values a list of object ids denotes in heap h.
Deref(h, ids) == [i \in 1..Len(ids) |-> h[ids[i]]]

\* Ordered, non-overlapping intervals with 0 <= start < end <= MaxTime.
Interval == {iv \in [start : 0..MaxTime, end : 0..MaxTime] : iv.start < iv.end}
Apart(a, b) == a.end <= b.start

\* The sequences over S of length at most n whose intervals are in order and do
\* not overlap.
RECURSIVE Chains(_, _)
Chains(S, n) ==
    IF n = 0 THEN {<<>>}
    ELSE LET shorter == Chains(S, n - 1)
             longest == {y \in shorter : Len(y) = n - 1}
         IN shorter \cup
            {Append(p[1], p[2]) :
                p \in {q \in longest \X S : n = 1 \/ Apart(q[1][n - 1], q[2])}}
SegmentLists == Chains(Interval, MaxSegs)

\* ------------------------------------------------- _expand_segments (13-23)
_expand_segments(h, segs, expand_head, expand_tail, total_length) ==
    LET n == Len(segs)
        t(i) == h[segs[i]]
        new(i) ==
            [start |-> Max(t(i).start - expand_head,
                           IF i > 1 THEN h[segs[i-1]].end ELSE 0),
             end   |-> Min(t(i).end + expand_tail,
                           IF i < n THEN h[segs[i+1]].start ELSE total_length)]
    IN [heap    |-> h \o [i \in 1..n |-> new(i)],
        results |-> [i \in 1..n |-> Len(h) + i]]

\* ------------------------------------------- _remove_short_segments (25-27)
_remove_short_segments(h, segs, threshold) ==
    [heap    |-> h,
     results |-> SelectSeq(segs, LAMBDA s : h[s].end - h[s].start > threshold)]

\* ----------------------------------------- _merge_adjacent_segments (29-43)
\* Line 36: the test that absorbs segments[j] into s.
merge_test(h, s, sj, threshold) == h[sj].start < h[s].end + threshold

\* A slip in line 37: the accumulator takes segments[j]'s start.
merge_absorb_start(h, s, sj) == [h EXCEPT ![s].end = h[sj].start]

\* Line 37: s['end'] = segments[j]['end'], a write to the dict s refers to.
merge_absorb(h, s, sj) == [h EXCEPT ![s].end = h[sj].end]

\* Lines 35-40: the inner for loop over j, from j to the end of the list.
RECURSIVE merge_inner(_, _, _, _, _, _)
merge_inner(h, segs, s, j, i, threshold) ==
    IF j > Len(segs) THEN [heap |-> h, i |-> i]
    ELSE IF merge_test(h, s, segs[j], threshold)
         THEN merge_inner(merge_absorb(h, s, segs[j]), segs, s, j + 1, j, threshold)
         ELSE [heap |-> h, i |-> i]

\* Lines 33-42: the while loop over i.
RECURSIVE merge_outer(_, _, _, _, _)
merge_outer(h, segs, i, res, threshold) ==
    IF i > Len(segs) THEN [heap |-> h, results |-> res]
    ELSE LET s == segs[i]
             r == merge_inner(h, segs, s, i + 1, i, threshold)
         IN merge_outer(r.heap, segs, r.i + 1, Append(res, s), threshold)

_merge_adjacent_segments(h, segs, threshold) == merge_outer(h, segs, 1, <<>>, threshold)

\* ----------------------------------------------------- interval call steps
InitIntervals ==
    /\ orig \in SegmentLists
    /\ heap = orig
    /\ segments = [i \in 1..Len(orig) |-> i]
    /\ results = <<>>
    /\ call = NoCall
    /\ ipc = "ready"
    /\ IdleSrt /\ IdleMd /\ IdleFiles /\ IdleCut

Return(r, c) ==
    /\ heap' = r.heap
    /\ results' = r.results
    /\ call' = c
    /\ ipc' = "returned"
    /\ UNCHANGED <<segments, orig, notI>>

CallExpand ==
    /\ ipc = "ready"
    /\ \E eh \in 0..MaxPad, et \in 0..MaxPad, tl \in 0..(MaxTime + 1) :
          Return(_expand_segments(heap, segments, eh, et, tl),
                 [NoCall EXCEPT !.name = "expand", !.head = eh, !.tail = et, !.total = tl])

CallRemoveShort ==
    /\ ipc = "ready"
    /\ \E th \in 0..MaxPad :
          Return(_remove_short_segments(heap, segments, th),
                 [NoCall EXCEPT !.name = "remove_short", !.threshold = th])

CallMergeAdjacent ==
    /\ ipc = "ready"
    /\ \E th \in 0..MaxPad :
          Return(_merge_adjacent_segments(heap, segments, th),
                 [NoCall EXCEPT !.name = "merge_adjacent", !.threshold = th])


\* ======================================================================
\* Transcribe: _detect_voice_activity, _transcibe, _save_srt
\* ======================================================================
sampling_rate == 16000

\* Absolute times are kept in samples, that is in 1/sampling_rate seconds, so
\* that origin['start'] / sampling_rate is exact: Sec(x) is x seconds.
Sec(x) == x * sampling_rate
Grain == sampling_rate \div 2
audio_len == MaxGrain * Grain

\* What the detector may report: ordered, non-overlapping windows of the audio.
VoiceWindow ==
    {w \in [start : {g * Grain : g \in 0..MaxGrain}, end : {g * Grain : g \in 0..MaxGrain}] :
        w.start < w.end}
DetectorOutputs == Chains(VoiceWindow, MaxVoice)

\* What the transcriber may return for one slice: ordered segments with
\* slice-relative timestamps in seconds, which may run past the slice.
LocalSegment ==
    {s \in [start : 0..MaxLocal, end : 0..MaxLocal] : s.start <= s.end}
TranscriptLists(n) == Chains(LocalSegment, n)

NoSpeech == "< No Speech >"

\* Lines 95-106: the detector's windows, padded by 0.2 s at the head.
_detect_voice_activity(sp) ==
    LET r == _expand_segments(sp, [i \in 1..Len(sp) |-> i],
                              (2 * sampling_rate) \div 10, 0 * sampling_rate, audio_len)
    IN Deref(r.heap, r.results)

\* Line 142, times sampling_rate.
abs_start(s, origin) == Sec(s.start) + origin.start
\* Line 143, times sampling_rate.
abs_end(s, origin) == Min(Sec(s.end) + origin.start, origin.end)
\* A slip in line 145: >= for >.
gap_test_ge(start, pe) == start >= pe + Sec(1)

\* Line 145.
gap_test(start, pe) == start > pe + Sec(1)

\* Lines 132-136. r is not a field of srt.Subtitle: it records which
\* transcribe result the entry was added for.
_add_sub(sb, start, end, text, r) ==
    Append(sb, [start |-> start, end |-> end, content |-> text, r |-> r])

\* Lines 141-148: the loop over r['segments'], from segment k on.
RECURSIVE save_srt_segments(_, _, _, _, _)
save_srt_segments(st, origin, segs, k, r) ==
    IF k > Len(segs) THEN st
    ELSE LET s == segs[k]
             start == abs_start(s, origin)
             end == abs_end(s, origin)
             gapped == IF gap_test(start, st.prev_end)
                       THEN _add_sub(st.subs, st.prev_end, start, NoSpeech, r)
                       ELSE st.subs
         IN save_srt_segments([subs |-> _add_sub(gapped, start, end, "text", r),
                               prev_end |-> end],
                              origin, segs, k + 1, r)

\* Lines 150-151: srt.compose issues the indexes 1, 2, ... in list order.
compose(sb) ==
    [i \in 1..Len(sb) |->
        [index |-> i, start |-> sb[i].start, end |-> sb[i].end, content |-> sb[i].content]]

InitSrt ==
    /\ speeches \in DetectorOutputs
    /\ speech_timestamps = <<>>
    /\ transcribe_results = <<>>
    /\ subs = <<>>
    /\ prev_end = 0
    /\ ri = 0
    /\ srt_out = <<>>
    /\ spc = "detect"
    /\ IdleIntervals /\ IdleMd /\ IdleFiles /\ IdleCut

\* Transcribe.run line 73.
DetectVoiceActivity ==
    /\ spc = "detect"
    /\ speech_timestamps' = _detect_voice_activity(speeches)
    /\ spc' = "transcribe"
    /\ UNCHANGED <<speeches, transcribe_results, subs, prev_end, ri, srt_out,
                 notS>>

Transcribed == LET n == Len(transcribe_results)
                   f[i \in 0..n] == IF i = 0 THEN 0
                                    ELSE f[i-1] + Len(transcribe_results[i].segments)
               IN f[n]

\* _transcibe lines 118-123: one voice segment is transcribed.
TranscibeSegment ==
    /\ spc = "transcribe"
    /\ Len(transcribe_results) < Len(speech_timestamps)
    /\ \E segs \in TranscriptLists(MaxEntries - Transcribed) :
          transcribe_results' =
              Append(transcribe_results,
                     [segments |-> segs,
                      origin_timestamp |-> speech_timestamps[Len(transcribe_results) + 1]])
    /\ UNCHANGED <<speeches, speech_timestamps, subs, prev_end, ri, srt_out, spc,
                 notS>>

\* _transcibe line 125, _save_srt lines 128-138.
TranscibeReturn ==
    /\ spc = "transcribe"
    /\ Len(transcribe_results) = Len(speech_timestamps)
    /\ subs' = <<>>
    /\ prev_end' = 0
    /\ ri' = 0
    /\ spc' = "save"
    /\ UNCHANGED <<speeches, speech_timestamps, transcribe_results, srt_out,
                 notS>>

\* _save_srt lines 139-148: one r of transcribe_results.
SaveSrtResult ==
    /\ spc = "save"
    /\ ri < Len(transcribe_results)
    /\ LET r == transcribe_results[ri + 1]
           st == save_srt_segments([subs |-> subs, prev_end |-> prev_end],
                                   r.origin_timestamp, r.segments, 1, ri + 1)
       IN /\ subs' = st.subs
          /\ prev_end' = st.prev_end
    /\ ri' = ri + 1
    /\ UNCHANGED <<speeches, speech_timestamps, transcribe_results, srt_out, spc,
                 notS>>

\* _save_srt lines 150-151.
WriteSrt ==
    /\ spc = "save"
    /\ ri = Len(transcribe_results)
    /\ srt_out' = compose(subs)
    /\ spc' = "done"
    /\ UNCHANGED <<speeches, speech_timestamps, transcribe_results, subs, prev_end, ri,
                 notS>>

NextSrt == DetectVoiceActivity \/ TranscibeSegment \/ TranscibeReturn
           \/ SaveSrtResult \/ WriteSrt

\* ======================================================================
\* The checklist: Transcribe._save_md and Cutter._marked_index
\* ======================================================================
\* A line is a sequence of tokens [t, v]: a piece of text t, or a number v
\* under t = "digits" (a subtitle index), "dur" (tenths of a second) or "text"
\* (a subtitle's content, on one line).
T(c) == [t |-> c, v |-> 0]
Digits(n) == [t |-> "digits", v |-> n]
Dur(d) == [t |-> "dur", v |-> d]
Text(x) == [t |-> "text", v |-> x]

\* Line 11.
_EDIT_DONE == <<T("DONE EDITTING")>>
\* Line 157: '- [ ] '.
MARK == <<T("-"), T(" "), T("["), T(" "), T("]"), T(" ")>>

\* Line 164's {dur:.1f}: a duration in samples, rounded to tenths of a second.
dur_tenths(d) == (20 * d + sampling_rate) \div (2 * sampling_rate)

\* Lines 163-167: the line of one subtitle; the padding of {pre:15} and the
\* space after it are one " " token.
md_entry(s) ==
    MARK \o <<T("["), Digits(s.index), T(","), Dur(dur_tenths(s.end - s.start)), T("s]"),
              T(" "), Text(s.content)>>

\* Lines 158-169: the lines of the file '\n'.join(md) makes. The first and the
\* third item carry line breaks of their own, which leave empty lines.
_save_md(sb) ==
    << <<T("Texts generated from")>>, <<>>, MARK \o _EDIT_DONE, <<>>,
       <<T("The format is"), T("["), T("subtitle_index,duration_in_second"), T("]")>> >>
    \o (IF sb = <<>> THEN <<>> ELSE << <<>> >> \o [i \in 1..Len(sb) |-> md_entry(sb[i])])

\* The first position from k on of line l that holds no space.
RECURSIVE skip_spaces(_, _)
skip_spaces(l, k) ==
    IF k <= Len(l) /\ l[k] = T(" ") THEN skip_spaces(l, k + 1) ELSE k

NoMatch == [ok |-> FALSE, mark |-> "", next |-> 0]

\* The common head of the patterns of lines 234 and 237, r'- +\[([ x])\] +',
\* matched at the start of line l: the group, and where the match ends.
match_box(l) ==
    IF Len(l) = 0 \/ l[1] # T("-") THEN NoMatch
    ELSE LET a == skip_spaces(l, 2)
         IN IF a = 2 \/ a + 2 > Len(l) THEN NoMatch
            ELSE IF l[a] # T("[") \/ l[a + 1].t \notin {" ", "x"} \/ l[a + 2] # T("]")
                 THEN NoMatch
                 ELSE LET b == skip_spaces(l, a + 3)
                      IN IF b = a + 3 THEN NoMatch
                         ELSE [ok |-> TRUE, mark |-> l[a + 1].t, next |-> b]

\* Line 234: re.match(r'- +\[([ x])\] +' + _EDIT_DONE, l).
match_done(l) ==
    LET m == match_box(l)
    IN m.ok /\ m.next <= Len(l) /\ l[m.next] = _EDIT_DONE[1]

\* Line 237: re.match(r'- +\[([ x])\] +\[(\d+)', l).
match_index(l) ==
    LET m == match_box(l)
    IN m.ok /\ m.next + 1 <= Len(l) /\ l[m.next] = T("[") /\ l[m.next + 1].t = "digits"

\* A slip in line 238: every index line counts, checked or not.
is_checked_any(mark) == TRUE

\* Lines 236 and 238: m.groups()[0] == 'x'.
is_checked(mark) == mark = "x"

\* Lines 231-240, from line k of the file on.
RECURSIVE marked_index_from(_, _, _, _)
marked_index_from(lines, k, dn, ret) ==
    IF k > Len(lines) THEN [done |-> dn, index |-> ret]
    ELSE LET l == lines[k]
             m == match_box(l)
             dn2 == IF match_done(l) THEN is_checked(m.mark) ELSE dn
             ret2 == IF match_index(l) /\ is_checked(m.mark)
                     THEN Append(ret, l[m.next + 1].v)
                     ELSE ret
         IN marked_index_from(lines, k + 1, dn2, ret2)

_marked_index(lines) == marked_index_from(lines, 1, FALSE, <<>>)

\* ---- what a reviewer does to the file between export and import
\* The line of the subtitle at position j of the file _save_md wrote.
entry_line(j) == 6 + j
\* The line of the DONE EDITTING box.
done_line == CHOOSE k \in 1..Len(_save_md(<<>>)) : match_done(_save_md(<<>>)[k])
\* The box of a checklist line is its fourth token.
set_box(l, c) == [l EXCEPT ![4] = T(c)]

\* The subtitle files read: n entries, indexed 1..n as srt.compose writes them
\* or with indexes that repeat (files joined by hand), in time order or not.
SubtitleFiles ==
    {[i \in 1..n |->
        [index   |-> IF repeat THEN 1 + ((i - 1) % 2) ELSE i,
         start   |-> Sec(2 * (IF forward THEN i - 1 ELSE n - i)),
         end     |-> Sec(2 * (IF forward THEN i - 1 ELSE n - i)) + Sec(1) + Grain,
         content |-> i]] :
      n \in 0..MaxSubs, repeat \in BOOLEAN, forward \in BOOLEAN}

InitMd ==
    /\ srt_file \in SubtitleFiles
    /\ md_file = <<>>
    /\ marked = {}
    /\ sentinel = " "
    /\ done = FALSE
    /\ index = <<>>
    /\ mpc = "export"
    /\ IdleIntervals /\ IdleSrt /\ IdleCut

\* Transcribe.run line 79.
SaveMd ==
    /\ mpc = "export"
    /\ md_file' = _save_md(srt_file)
    /\ mpc' = "review"
    /\ UNCHANGED <<srt_file, marked, sentinel, done, index, notM>>

\* The reviewer checks the line of one subtitle.
ReviewerCheck ==
    /\ mpc = "review"
    /\ \E j \in (1..Len(srt_file)) \ marked :
          /\ md_file' = [md_file EXCEPT ![entry_line(j)] = set_box(@, "x")]
          /\ marked' = marked \cup {j}
    /\ UNCHANGED <<srt_file, sentinel, done, index, mpc, notM>>

\* The reviewer unchecks a line again.
ReviewerUncheck ==
    /\ mpc = "review"
    /\ \E j \in marked :
          /\ md_file' = [md_file EXCEPT ![entry_line(j)] = set_box(@, " ")]
          /\ marked' = marked \ {j}
    /\ UNCHANGED <<srt_file, sentinel, done, index, mpc, notM>>

\* The reviewer checks or unchecks the DONE EDITTING box.
ReviewerDone ==
    /\ mpc = "review"
    /\ \E c \in {" ", "x"} \ {sentinel} :
          /\ md_file' = [md_file EXCEPT ![done_line] = set_box(@, c)]
          /\ sentinel' = c
    /\ UNCHANGED <<srt_file, marked, done, index, mpc, notM>>

\* Cutter.run line 198.
ImportMd ==
    /\ mpc = "review"
    /\ LET r == _marked_index(md_file)
       IN done' = r.done /\ index' = r.index
    /\ mpc' = "imported"
    /\ UNCHANGED <<srt_file, md_file, marked, sentinel, notM>>

NextMd == SaveMd \/ ReviewerCheck \/ ReviewerUncheck \/ ReviewerDone \/ ImportMd

\* ======================================================================
\* Cutter.run
\* ======================================================================
\* The checklists a run may find: the file _save_md wrote for the subtitle
\* file, with the lines at the positions K checked and the DONE EDITTING box
\* left unchecked (" "), checked ("x"), checked with a capital ("X", which the
\* pattern of line 234 does not match) or its line deleted ("missing").
reviewed(sb, K, box) ==
    LET exported == _save_md(sb)
        checked == [k \in 1..Len(exported) |->
                       IF k = done_line /\ box # "missing" THEN set_box(exported[k], box)
                       ELSE IF \E j \in K : k = entry_line(j) THEN set_box(exported[k], "x")
                       ELSE exported[k]]
    IN IF box = "missing"
       THEN SubSeq(checked, 1, done_line - 1) \o SubSeq(checked, done_line + 1, Len(checked))
       ELSE checked

\* Lines 176-179: fns, by the extension of each input. An extension that is no
\* key of fns counts as the video.
role(ext) == IF ext \in {"srt", "video", "md"} THEN ext ELSE "video"
fns(r) == \E ext \in inputs : role(ext) = r

\* A slip in lines 45-52: the existing file is never a reason to skip.
_check_exists_never(exists, force) == FALSE

\* Lines 45-52.
_check_exists(exists, force) == exists /\ ~force

\* A slip in line 199: the run goes on whatever done is.
not_done_never(dn) == FALSE

\* Line 199.
not_done(dn) == ~dn

\* A slip in line 202: the filter is left out.
select_all(sb, idx) == sb

\* Line 202: [s for s in subs if s.index in index].
select_subs(sb, idx) == SelectSeq(sb, LAMBDA s : s.index \in Range(idx))

\* Lines 204-205.
to_segments(sb) == [i \in 1..Len(sb) |-> [start |-> sb[i].start, end |-> sb[i].end]]

\* A call to the media engine.
Event(op, start, end, arg) == [op |-> op, start |-> start, end |-> end, arg |-> arg]

\* A slip in line 216: each clip is normalized as it is cut.
subclip_normalized(s) == <<Event("trim", s.start, s.end, <<>>), Event("normalize", 0, 0, <<>>)>>

\* Line 216: video.subclip(s['start'], s['end']).
subclip(s) == <<Event("trim", s.start, s.end, <<>>)>>

\* Line 220: the rate the joined audio is resampled to.
audio_fps == 44100

Finish(how) ==
    /\ outcome' = how
    /\ cpc' = "done"

InitCut ==
    /\ inputs \in SUBSET {"mp4", "srt", "md"}
    /\ args_md \in BOOLEAN
    /\ args_force \in BOOLEAN
    /\ output_existed \in BOOLEAN
    /\ output_exists = output_existed
    /\ srt_file \in (IF "srt" \in inputs THEN SubtitleFiles ELSE {<<>>})
    /\ marked \in (IF "md" \in inputs THEN SUBSET (1..Len(srt_file)) ELSE {{}})
    /\ sentinel \in (IF "md" \in inputs THEN {" ", "x", "X", "missing"} ELSE {" "})
    /\ md_file = (IF "md" \in inputs THEN reviewed(srt_file, marked, sentinel) ELSE <<>>)
    /\ done = FALSE
    /\ index = <<>>
    /\ cut_subs = <<>>
    /\ cut_segments = <<>>
    /\ ti = 0
    /\ events = <<>>
    /\ reads = {}
    /\ outcome = ""
    /\ cpc = "resolve"
    /\ IdleIntervals /\ IdleSrt /\ IdleMd

\* Lines 176-187: the roles of the inputs, and the three assertions.
ResolveRoles ==
    /\ cpc = "resolve"
    /\ IF ~fns("video") THEN Finish("must provide a video filename")
       ELSE IF ~fns("srt") THEN Finish("must provide a srt filename")
       ELSE IF args_md /\ ~fns("md") THEN Finish("must provide a md filename")
       ELSE cpc' = "check" /\ UNCHANGED outcome
    /\ UNCHANGED <<inputs, args_md, args_force, output_exists, output_existed, cut_subs,
                   cut_segments, ti, events, reads, srt_file, md_file, marked, sentinel,
                   done, index, mpc, notC>>

\* Lines 189-191.
CheckExists ==
    /\ cpc = "check"
    /\ IF _check_exists(output_exists, args_force)
       THEN Finish("exists, skipping")
       ELSE cpc' = "load" /\ UNCHANGED outcome
    /\ UNCHANGED <<inputs, args_md, args_force, output_exists, output_existed, cut_subs,
                   cut_segments, ti, events, reads, srt_file, md_file, marked, sentinel,
                   done, index, mpc, notC>>

\* Lines 193-195.
LoadSubs ==
    /\ cpc = "load"
    /\ cut_subs' = srt_file
    /\ reads' = reads \cup {"srt"}
    /\ cpc' = "select"
    /\ UNCHANGED <<inputs, args_md, args_force, output_exists, output_existed,
                   cut_segments, ti, events, outcome, srt_file, md_file, marked, sentinel,
                   done, index, mpc, notC>>

\* Lines 197-202, with args.md set.
SelectMarked ==
    /\ cpc = "select"
    /\ args_md
    /\ LET r == _marked_index(md_file)
       IN /\ done' = r.done
          /\ index' = r.index
          /\ IF not_done(r.done)
             THEN Finish("is not marked as done editting. skip...") /\ UNCHANGED cut_subs
             ELSE /\ cut_subs' = select_subs(cut_subs, r.index)
                  /\ cpc' = "plan"
                  /\ UNCHANGED outcome
    /\ reads' = reads \cup {"md"}
    /\ UNCHANGED <<inputs, args_md, args_force, output_exists, output_existed,
                   cut_segments, ti, events, srt_file, md_file, marked, sentinel, mpc, notC>>

\* Line 197, with args.md not set.
SelectAll ==
    /\ cpc = "select"
    /\ ~args_md
    /\ cpc' = "plan"
    /\ UNCHANGED <<inputs, args_md, args_force, output_exists, output_existed, cut_subs,
                   cut_segments, ti, events, reads, outcome, srt_file, md_file, marked,
                   sentinel, done, index, mpc, notC>>

\* Lines 204-205.
BuildSegments ==
    /\ cpc = "plan"
    /\ cut_segments' = to_segments(cut_subs)
    /\ cpc' = "open"
    /\ UNCHANGED <<inputs, args_md, args_force, output_exists, output_existed, cut_subs,
                   ti, events, reads, outcome, srt_file, md_file, marked, sentinel,
                   done, index, mpc, notC>>

MediaCall(evs, next) ==
    /\ events' = events \o evs
    /\ cpc' = next
    /\ UNCHANGED <<inputs, args_md, args_force, output_existed, cut_subs, cut_segments,
                   reads, srt_file, md_file, marked, sentinel, done, index, mpc, notC>>

\* Line 207.
OpenVideo ==
    /\ cpc = "open"
    /\ MediaCall(<<Event("open", 0, 0, <<>>)>>, "trim")
    /\ UNCHANGED <<ti, output_exists, outcome>>

\* Line 216: the next clip of the list.
Subclip ==
    /\ cpc = "trim"
    /\ ti < Len(cut_segments)
    /\ MediaCall(subclip(cut_segments[ti + 1]), "trim")
    /\ ti' = ti + 1
    /\ UNCHANGED <<output_exists, outcome>>

\* Line 217.
Concatenate ==
    /\ cpc = "trim"
    /\ ti = Len(cut_segments)
    /\ MediaCall(<<Event("concatenate", 0, 0,
                         SelectSeq(events, LAMBDA e : e.op = "trim"))>>, "resample")
    /\ UNCHANGED <<ti, output_exists, outcome>>

\* Lines 220-221.
SetFps ==
    /\ cpc = "resample"
    /\ MediaCall(<<Event("resample", 0, 0, <<audio_fps>>)>>, "normalize")
    /\ UNCHANGED <<ti, output_exists, outcome>>

\* Line 222.
AudioNormalize ==
    /\ cpc = "normalize"
    /\ MediaCall(<<Event("normalize", 0, 0, <<>>)>>, "write")
    /\ UNCHANGED <<ti, output_exists, outcome>>

\* Lines 225-226.
WriteVideofile ==
    /\ cpc = "write"
    /\ MediaCall(<<Event("write", 0, 0, <<>>)>>, "done")
    /\ output_exists' = TRUE
    /\ outcome' = "Saved video"
    /\ UNCHANGED ti

\* A call to the media engine raises: nothing catches it, the run ends there.
MediaError ==
    /\ cpc \in {"open", "trim", "resample", "normalize", "write"}
    /\ Finish("media engine error")
    /\ UNCHANGED <<inputs, args_md, args_force, output_exists, output_existed, cut_subs,
                   cut_segments, ti, events, reads, srt_file, md_file, marked, sentinel,
                   done, index, mpc, notC>>

NextCut ==
    \/ ResolveRoles \/ CheckExists \/ LoadSubs \/ SelectMarked \/ SelectAll
    \/ BuildSegments \/ OpenVideo \/ Subclip \/ Concatenate \/ SetFps
    \/ AudioNormalize \/ WriteVideofile \/ MediaError

\* ======================================================================
\* Specifications
\* ======================================================================
NextIntervals == CallExpand \/ CallRemoveShort \/ CallMergeAdjacent

SpecIntervals == InitIntervals /\ [][NextIntervals]_vars

SpecSrt == InitSrt /\ [][NextSrt]_vars

SpecMd == InitMd /\ [][NextMd]_vars

SpecCut == InitCut /\ [][NextCut]_vars

\* ======================================================================
\* Properties of the interval transforms (SpecIntervals)
\* ======================================================================
Returned(name) == ipc = "returned" /\ call.name = name
Result == Deref(heap, results)

\* C1: every interval _expand_segments returns satisfies
\* 0 <= start < end <= total_length, and consecutive returned intervals satisfy
\* end_i <= start_{i+1}, for every ordered non-overlapping input, every pad >= 0
\* and every total_length, one smaller than an interval's end included.
C1_ExpandWithinBounds ==
    Returned("expand") =>
        /\ \A i \in 1..Len(Result) :
              /\ 0 <= Result[i].start
              /\ Result[i].start < Result[i].end
              /\ Result[i].end <= call.total
        /\ \A i \in 1..(Len(Result) - 1) : Result[i].end <= Result[i+1].start

\* C8: _merge_adjacent_segments returns a list that covers at least the
\* duration its input covered, in at most as many intervals.
C8_MergeCoverage ==
    Returned("merge_adjacent") =>
        /\ SumLen(Result) >= SumLen(orig)
        /\ Len(results) <= Len(orig)

\* A merge that absorbed an interval across a gap.
C8_Witness ==
    /\ Returned("merge_adjacent")
    /\ Len(results) < Len(orig)
    /\ SumLen(Result) > SumLen(orig)

\* C9: expand, removeShort and mergeAdjacent are pure: after the call the
\* caller's list holds the values it held before, and the returned list shares
\* no interval record with it.
C9_Pure ==
    ipc = "returned" =>
        /\ Deref(heap, segments) = orig
        /\ Range(results) \cap Range(segments) = {}

\* ======================================================================
\* Properties of the subtitle timeline (SpecSrt)
\* ======================================================================
IsReal(i) == subs[i].content # NoSpeech
NextReal(p, q) ==
    /\ p < q /\ IsReal(p) /\ IsReal(q)
    /\ \A m \in (p + 1)..(q - 1) : ~IsReal(m)
LastRealEnd ==
    LET reals == {i \in 1..Len(subs) : IsReal(i)}
    IN IF reals = {} THEN 0
       ELSE subs[CHOOSE i \in reals : \A k \in reals : k <= i].end

\* C2: between two consecutive real entries of the timeline there is exactly
\* one "< No Speech >" entry spanning [end_k, start_{k+1}) when
\* start_{k+1} - end_k > 1.0 s and none otherwise, across voice segments as within
\* one: the cursor prev_end is the last real entry's end and is never reset.
C2_GapFill ==
    /\ \A p, q \in 1..Len(subs) :
          NextReal(p, q) =>
              IF subs[q].start - subs[p].end > Sec(1)
              THEN /\ q = p + 2
                   /\ subs[p + 1].start = subs[p].end
                   /\ subs[p + 1].end = subs[q].start
              ELSE q = p + 1
    /\ spc = "save" => prev_end = LastRealEnd

\* A placeholder between the real entries of two different voice segments.
C2_Witness ==
    /\ spc = "done"
    /\ \E p \in 1..(Len(subs) - 2) :
          /\ NextReal(p, p + 2)
          /\ subs[p].r # subs[p + 2].r
          /\ subs[p + 1].content = NoSpeech
          /\ subs[p + 1].start = subs[p].end

\* C10: the entries _save_srt emits have non-decreasing starts in emission
\* order, every entry has start <= end, and every real entry ends no later than
\* its voice segment, also when transcript timestamps run past their slice.
C10_MonotoneClipped ==
    /\ \A i \in 1..Len(subs) :
          /\ subs[i].start <= subs[i].end
          /\ IsReal(i) =>
                subs[i].end <= transcribe_results[subs[i].r].origin_timestamp.end
    /\ \A i \in 1..(Len(subs) - 1) : subs[i].start <= subs[i + 1].start

\* ======================================================================
\* Properties of the checklist (SpecMd)
\* ======================================================================
\* The positions 1..n that are in K, in ascending order.
RECURSIVE Ascending(_, _)
Ascending(n, K) ==
    IF n = 0 THEN <<>>
    ELSE IF n \in K THEN Append(Ascending(n - 1, K), n) ELSE Ascending(n - 1, K)

\* The indexes of the subtitles whose lines the reviewer checked, in file order.
CheckedIndexes ==
    LET pos == Ascending(Len(srt_file), marked)
    IN [k \in 1..Len(pos) |-> srt_file[pos[k]].index]

\* C7: importing the checklist _save_md exported returns done = FALSE and no
\* index when nothing was edited and, after the reviewer checked the lines of a
\* set of subtitles and checked or left the DONE EDITTING box, exactly the
\* indexes of those lines and done equal to the state of the box; the header and
\* format lines count for nothing.
C7_RoundTrip ==
    mpc = "imported" =>
        /\ done = (sentinel = "x")
        /\ index = CheckedIndexes
        /\ (marked = {} /\ sentinel = " ") => (done = FALSE /\ index = <<>>)

\* Subtitles 3 and 5 checked, the box checked, the rest left alone.
C7_Witness ==
    /\ mpc = "imported"
    /\ marked = {3, 5}
    /\ sentinel = "x"
    /\ index = <<3, 5>>

\* ======================================================================
\* Properties of Cutter.run (SpecCut)
\* ======================================================================
PlanBuilt == cpc \in {"open", "trim", "resample", "normalize", "write"}
NotDoneMessage == "is not marked as done editting. skip..."
SkipMessage == "exists, skipping"

\* The [start, end] pairs of the subtitles at the positions K, in file order.
PairsAt(K) ==
    LET pos == Ascending(Len(srt_file), K)
    IN [k \in 1..Len(pos) |-> [start |-> srt_file[pos[k]].start, end |-> srt_file[pos[k]].end]]

\* The positions of the subtitles whose index is one the reviewer checked.
SelectedPositions ==
    {i \in 1..Len(srt_file) : \E j \in marked : srt_file[j].index = srt_file[i].index}

\* C3: when the run reaches the trim step, the plan is, with args.md and the
\* checklist marked done, the [start, end] pairs of exactly the subtitles whose
\* index is checked, each once and in the order of the subtitle file, and
\* without args.md the pairs of the whole file in its order.
C3_AssemblyPlan ==
    PlanBuilt =>
        IF args_md
        THEN sentinel = "x" /\ cut_segments = PairsAt(SelectedPositions)
        ELSE cut_segments = PairsAt(1..Len(srt_file))

\* Indexes 3 and 5 checked: the plan is subtitles 3 and 5, in that order.
C3_Witness ==
    /\ cpc = "trim" /\ args_md
    /\ marked = {3, 5}
    /\ index = <<3, 5>>
    /\ cut_segments = <<[start |-> srt_file[3].start, end |-> srt_file[3].end],
                        [start |-> srt_file[5].start, end |-> srt_file[5].end]>>
    /\ srt_file[3].start < srt_file[5].start

\* C4: with args.md, a checklist that is not marked done (the box unchecked,
\* missing or malformed) ends the run as a skip with the guidance message and
\* without any call to the media engine, whatever lines are checked.
C4_NotReadySkips ==
    /\ (args_md /\ sentinel # "x") =>
          /\ events = <<>>
          /\ ~PlanBuilt
          /\ output_exists = output_existed
          /\ "md" \in reads => (~done /\ cpc = "done" /\ outcome = NotDoneMessage)
    /\ ("md" \in reads /\ ~done) =>
          (events = <<>> /\ cpc = "done" /\ outcome = NotDoneMessage)

\* A malformed box with lines checked: the run has skipped.
C4_Witness ==
    /\ "md" \in reads
    /\ sentinel = "X"
    /\ marked # {}
    /\ outcome = NotDoneMessage

\* C5: when the output exists and args.force is not set, the run calls the
\* media engine not once, reads neither the subtitle file nor the checklist,
\* leaves the output as it is and reports the skip; with args.force set, the
\* existing output never ends the run.
C5_ExistsSkips ==
    /\ (output_existed /\ ~args_force) =>
          /\ events = <<>>
          /\ reads = {}
          /\ output_exists
          /\ cpc \in {"resolve", "check", "done"}
          /\ (cpc = "done" /\ fns("video") /\ fns("srt") /\ (args_md => fns("md")))
                => outcome = SkipMessage
    /\ args_force => outcome # SkipMessage
    /\ (args_force /\ cpc = "load") => outcome = ""

\* A run with all its inputs that skipped because the output was there.
C5_Witness ==
    /\ output_existed /\ ~args_force
    /\ outcome = SkipMessage
    /\ Len(srt_file) > 1
    /\ sentinel = "x"

\* The media calls of a whole run over the plan.
ExpectedTrims == [i \in 1..Len(cut_segments) |->
                    Event("trim", cut_segments[i].start, cut_segments[i].end, <<>>)]
ExpectedEvents ==
    <<Event("open", 0, 0, <<>>)>> \o ExpectedTrims
    \o <<Event("concatenate", 0, 0, ExpectedTrims),
         Event("resample", 0, 0, <<audio_fps>>),
         Event("normalize", 0, 0, <<>>),
         Event("write", 0, 0, <<>>)>>

\* C6: a run that writes an output has made, in this order, one trim per
\* planned interval in plan order, one concatenation of those trims in that
\* order, the resample to the fixed rate, one normalization and one write; and
\* at no point of any run does a resample or a normalization come before the
\* concatenation.
C6_MediaOrder ==
    /\ outcome = "Saved video" => events = ExpectedEvents
    /\ \A i \in 1..Len(events) :
          events[i].op \in {"resample", "normalize"} =>
              \E j \in 1..(i - 1) : events[j].op = "concatenate"

\* An output written from a plan of three intervals.
C6_Witness ==
    /\ outcome = "Saved video"
    /\ Len(cut_segments) = 3
    /\ Len(events) = 8

====
